---- MODULE Spec2Model ----
(***************************************************************************)
(* Model of solarmanagement.py: the Boiler controller (relay flags, charge *)
(* ledger, persisted ledger), Energy.read() with its bounded retry loop,   *)
(* and the control loop of main().                                         *)
(***************************************************************************)
EXTENDS Integers, Sequences, FiniteSets, TLC

VARIABLES
    \* ---- Boiler object (solarmanagement.py, class Boiler)
    is_enabled, is_disabled, start_time, stop_time,
    charge_time_today_sec, charge_time_yesterday_sec,
    json_data,          \* content of /tmp/solar.json (the persisted ledger)
    relay,              \* last state the Shelly relay was commanded to
    on_since,           \* clock value of the last relay ON command
    credited,           \* time added to today's counter for that ON interval
    last_call,          \* the last Boiler method call, its result and relay command
    \* ---- wall clock (time.time(), datetime.now())
    now,
    \* ---- Energy.read() activation
    rd,                 \* "idle", "reading", "returned" or "raised"
    attempt,            \* attempts made by the running read()
    recoveries,         \* _try_recover() invocations of the running read()
    inverter_data,      \* payload of inverter.read_all() in the last attempt
    meter_data,         \* payload of meter.read("power") in the last attempt
    production_w, export_w,
    connected,          \* whether the Modbus session is connected
    \* ---- main()
    pc,                 \* position of main()
    was_night,
    sachseln_bound,     \* whether the local sachseln is bound
    e_bound,            \* whether the local e is bound (to the Energy object)
    prod, export,
    decision,           \* the Boiler calls of the last iteration and what they returned
    stopped_by,         \* what ended the loop: "interrupt" or "fault"
    exit_code

boilerVars == <<is_enabled, is_disabled, start_time, stop_time,
                charge_time_today_sec, charge_time_yesterday_sec,
                json_data, relay, on_since, credited>>
readVars   == <<rd, attempt, recoveries, inverter_data, meter_data,
                production_w, export_w, connected>>
mainVars   == <<pc, was_night, sachseln_bound, e_bound, prod, export,
                decision, stopped_by, exit_code>>
vars       == <<boilerVars, last_call, now, readVars, mainVars>>

----------------------------------------------------------------------------
(* Bounds of the model *)

StartClock == 14400          \* time.time() at start-up (04:00, a night hour)
MaxElapsed == 86400          \* the clock is explored up to StartClock + MaxElapsed
MaxCharge  == 43200          \* cap on charge_time_today_sec explored
TickSteps  == {10800}        \* amounts by which the clock advances between steps

(* Program constants *)

FULL_CHARGE_TIME_SEC == 3600 * 3
USAGE_PER_DAY_SEC    == FULL_CHARGE_TIME_SEC \div 2
MaxAttempts          == 10
ProdLimit            == 3500
ExportLimitDisabled  == 3500
ExportLimitEnabled   == 500

(* Python None, and a present value *)
None    == <<>>
Some(v) == <<v>>
Val(o)  == o[1]

Min(a, b) == IF a <= b THEN a ELSE b

----------------------------------------------------------------------------
(* Boiler *)

\* The Boiler object as one record, so that method calls compose.
Boiler ==
    [is_enabled |-> is_enabled, is_disabled |-> is_disabled,
     start_time |-> start_time, stop_time |-> stop_time,
     charge_time_today_sec |-> charge_time_today_sec,
     charge_time_yesterday_sec |-> charge_time_yesterday_sec,
     json_data |-> json_data, relay |-> relay, on_since |-> on_since,
     credited |-> credited]

SetBoiler(b) ==
    /\ is_enabled' = b.is_enabled
    /\ is_disabled' = b.is_disabled
    /\ start_time' = b.start_time
    /\ stop_time' = b.stop_time
    /\ charge_time_today_sec' = b.charge_time_today_sec
    /\ charge_time_yesterday_sec' = b.charge_time_yesterday_sec
    /\ json_data' = b.json_data
    /\ relay' = b.relay
    /\ on_since' = b.on_since
    /\ credited' = b.credited

\* Ledgers a previous run of the program can have left in /tmp/solar.json,
\* and the one written when the file does not exist.
DefaultLedger ==
    [charge_time_today |-> 0, charge_time_yesterday |-> FULL_CHARGE_TIME_SEC]

StoredLedgers ==
    {DefaultLedger,
     [charge_time_today |-> 1800, charge_time_yesterday |-> 0],
     [charge_time_today |-> 5400, charge_time_yesterday |-> 0]}

\* Boiler.__init__
BoilerInit(ledger) ==
    /\ json_data = ledger
    /\ charge_time_today_sec = ledger.charge_time_today
    /\ charge_time_yesterday_sec = ledger.charge_time_yesterday
    /\ is_enabled = FALSE
    /\ is_disabled = FALSE
    /\ start_time = 0
    /\ stop_time = 0
    /\ relay = "unknown"
    /\ on_since = 0
    /\ credited = 0

\* The outcome of one relay command: it succeeds, or the device call raises.
RelayOutcomes == {"ok", "fault"}

\* Inside the loop of main() a KeyboardInterrupt can also arrive while the
\* call waits for the device.
LoopCallOutcomes == RelayOutcomes \cup {"interrupt"}

\* What a call that did not get its relay command through reports.
Raised(out) == IF out = "interrupt" THEN "interrupt" ELSE "raise"

\* A write that stores today's counter and leaves yesterday's entry.
write_today_only(b) ==
    [b EXCEPT !.json_data.charge_time_today = b.charge_time_today_sec]

write_charge_times_to_tmp_file(b) ==
    [b EXCEPT !.json_data =
        [charge_time_today |-> b.charge_time_today_sec,
         charge_time_yesterday |-> b.charge_time_yesterday_sec]]

\* enable() that leaves is_disabled as it was.
enable_keeps_disabled(b, t, out) ==
    IF ~b.is_enabled
    THEN IF out # "ok"
         THEN [b |-> b, ret |-> Raised(out), cmd |-> "on"]
         ELSE [b |-> [b EXCEPT !.relay = "on", !.on_since = t, !.credited = 0,
                               !.start_time = t,
                               !.is_enabled = TRUE],
               ret |-> "True", cmd |-> "on"]
    ELSE [b |-> b, ret |-> "False", cmd |-> "none"]

\* enable() without the test of is_enabled.
enable_unguarded(b, t, out) ==
    IF out # "ok"
    THEN [b |-> b, ret |-> Raised(out), cmd |-> "on"]
    ELSE [b |-> [b EXCEPT !.relay = "on", !.on_since = t, !.credited = 0,
                          !.start_time = t,
                          !.is_enabled = TRUE,
                          !.is_disabled = FALSE],
          ret |-> "True", cmd |-> "on"]

\* Results of a call: the object afterwards, what the call returned ("raise"
\* when it raised, "interrupt" when a KeyboardInterrupt ended it) and the
\* relay command it issued.
enable(b, t, out) ==
    IF ~b.is_enabled
    THEN IF out # "ok"
         THEN [b |-> b, ret |-> Raised(out), cmd |-> "on"]
         ELSE [b |-> [b EXCEPT !.relay = "on", !.on_since = t, !.credited = 0,
                               !.start_time = t,
                               !.is_enabled = TRUE,
                               !.is_disabled = FALSE],
               ret |-> "True", cmd |-> "on"]
    ELSE [b |-> b, ret |-> "False", cmd |-> "none"]

\* disable() that leaves is_enabled as it was.
disable_keeps_enabled(b, t, out) ==
    IF ~b.is_disabled
    THEN LET b1 == [b EXCEPT !.stop_time = t]
             b2 == IF b1.start_time # 0
                   THEN write_charge_times_to_tmp_file(
                          [b1 EXCEPT !.charge_time_today_sec =
                               @ + (b1.stop_time - b1.start_time),
                                     !.credited = @ + (b1.stop_time - b1.start_time)])
                   ELSE b1
         IN IF out # "ok"
            THEN [b |-> b2, ret |-> Raised(out), cmd |-> "off"]
            ELSE [b |-> [b2 EXCEPT !.relay = "off",
                                   !.is_disabled = TRUE],
                  ret |-> "True", cmd |-> "off"]
    ELSE [b |-> b, ret |-> "False", cmd |-> "none"]

\* disable() without the test of start_time.
disable_no_sentinel(b, t, out) ==
    IF ~b.is_disabled
    THEN LET b1 == [b EXCEPT !.stop_time = t]
             b2 == write_charge_times_to_tmp_file(
                          [b1 EXCEPT !.charge_time_today_sec =
                               @ + (b1.stop_time - b1.start_time),
                                     !.credited = @ + (b1.stop_time - b1.start_time)])
         IN IF out # "ok"
            THEN [b |-> b2, ret |-> Raised(out), cmd |-> "off"]
            ELSE [b |-> [b2 EXCEPT !.relay = "off",
                                   !.is_enabled = FALSE,
                                   !.is_disabled = TRUE],
                  ret |-> "True", cmd |-> "off"]
    ELSE [b |-> b, ret |-> "False", cmd |-> "none"]

\* disable() without the test of is_disabled.
disable_unguarded(b, t, out) ==
    LET b1 == [b EXCEPT !.stop_time = t]
        b2 == IF b1.start_time # 0
              THEN write_charge_times_to_tmp_file(
                     [b1 EXCEPT !.charge_time_today_sec =
                          @ + (b1.stop_time - b1.start_time),
                                !.credited = @ + (b1.stop_time - b1.start_time)])
              ELSE b1
    IN IF out # "ok"
       THEN [b |-> b2, ret |-> Raised(out), cmd |-> "off"]
       ELSE [b |-> [b2 EXCEPT !.relay = "off",
                              !.is_enabled = FALSE,
                              !.is_disabled = TRUE],
             ret |-> "True", cmd |-> "off"]

disable(b, t, out) ==
    IF ~b.is_disabled
    THEN LET b1 == [b EXCEPT !.stop_time = t]
             b2 == IF b1.start_time # 0
                   THEN write_charge_times_to_tmp_file(
                          [b1 EXCEPT !.charge_time_today_sec =
                               @ + (b1.stop_time - b1.start_time),
                                     !.credited = @ + (b1.stop_time - b1.start_time)])
                   ELSE b1
         IN IF out # "ok"
            THEN [b |-> b2, ret |-> Raised(out), cmd |-> "off"]
            ELSE [b |-> [b2 EXCEPT !.relay = "off",
                                   !.is_enabled = FALSE,
                                   !.is_disabled = TRUE],
                  ret |-> "True", cmd |-> "off"]
    ELSE [b |-> b, ret |-> "False", cmd |-> "none"]

\* set_new_day() without the cap at FULL_CHARGE_TIME_SEC.
set_new_day_no_clamp(b) ==
    write_charge_times_to_tmp_file(
        [b EXCEPT !.charge_time_yesterday_sec = b.charge_time_today_sec,
                  !.charge_time_today_sec = 0])

set_new_day(b) ==
    write_charge_times_to_tmp_file(
        [b EXCEPT !.charge_time_yesterday_sec =
                      Min(b.charge_time_today_sec, FULL_CHARGE_TIME_SEC),
                  !.charge_time_today_sec = 0])

reset_counter(b) ==
    write_charge_times_to_tmp_file([b EXCEPT !.charge_time_today_sec = 0])

is_fully_charged(b) == b.charge_time_today_sec > FULL_CHARGE_TIME_SEC

is_charged_for_one_day(b) == b.charge_time_today_sec > USAGE_PER_DAY_SEC

charge_time_of_last_two_days(b) ==
    b.charge_time_today_sec + b.charge_time_yesterday_sec

\* The sufficiency test with "more than" in place of "at least".
enough_strictly_more(b) ==
    charge_time_of_last_two_days(b) > USAGE_PER_DAY_SEC

is_boiler_charged_enough_for_one_day(b) ==
    charge_time_of_last_two_days(b) >= USAGE_PER_DAY_SEC

----------------------------------------------------------------------------
(* Clock *)

Tick ==
    \E d \in TickSteps :
        /\ now + d <= StartClock + MaxElapsed
        /\ now' = now + d
        /\ UNCHANGED <<boilerVars, last_call, readVars, mainVars>>

----------------------------------------------------------------------------
(* The Boiler driven through its public methods in any order *)

NoCall == [op |-> "none", ret |-> "none", cmd |-> "none"]

ReadIdle ==
    /\ rd = "idle" /\ attempt = 0 /\ recoveries = 0
    /\ inverter_data = None /\ meter_data = None
    /\ production_w = None /\ export_w = None /\ connected = TRUE

MainIdle ==
    /\ pc = "none" /\ was_night = FALSE /\ sachseln_bound = FALSE
    /\ e_bound = FALSE /\ prod = None /\ export = None
    /\ decision = [branch |-> "none", rollover |-> "skip", enable |-> "skip",
                   disable |-> "skip"]
    /\ stopped_by = "none"
    /\ exit_code = None

InitBoiler ==
    /\ \E ledger \in StoredLedgers : BoilerInit(ledger)
    /\ last_call = NoCall
    /\ now = StartClock
    /\ ReadIdle
    /\ MainIdle

CallEnable ==
    \E out \in RelayOutcomes :
        LET r == enable(Boiler, now, out) IN
        /\ SetBoiler(r.b)
        /\ last_call' = [op |-> "enable", ret |-> r.ret, cmd |-> r.cmd]
        /\ UNCHANGED <<now, readVars, mainVars>>

CallDisable ==
    \E out \in RelayOutcomes :
        LET r == disable(Boiler, now, out) IN
        /\ r.b.charge_time_today_sec <= MaxCharge
        /\ r.b.credited <= MaxCharge
        /\ SetBoiler(r.b)
        /\ last_call' = [op |-> "disable", ret |-> r.ret, cmd |-> r.cmd]
        /\ UNCHANGED <<now, readVars, mainVars>>

CallSetNewDay ==
    /\ SetBoiler(set_new_day(Boiler))
    /\ last_call' = [op |-> "set_new_day", ret |-> "None", cmd |-> "none"]
    /\ UNCHANGED <<now, readVars, mainVars>>

CallResetCounter ==
    /\ SetBoiler(reset_counter(Boiler))
    /\ last_call' = [op |-> "reset_counter", ret |-> "None", cmd |-> "none"]
    /\ UNCHANGED <<now, readVars, mainVars>>

NextBoiler ==
    \/ CallEnable
    \/ CallDisable
    \/ CallSetNewDay
    \/ CallResetCounter
    \/ Tick

SpecBoiler == InitBoiler /\ [][NextBoiler]_vars

----------------------------------------------------------------------------
(* Energy.read() *)

\* 10^k, k >= 0
RECURSIVE Pow10(_)
Pow10(k) == IF k = 0 THEN 1 ELSE 10 * Pow10(k - 1)

\* Decimal(x).shift(k): the digits of x moved k places to the left (k >= 0)
\* or -k places to the right, the digits moved past the units being dropped.
Shift(x, k) ==
    IF k >= 0 THEN x * Pow10(k)
    ELSE IF x >= 0 THEN x \div Pow10(-k)
    ELSE -((-x) \div Pow10(-k))

\* Payloads of inverter.read_all(): complete, or with fields missing after a
\* timeout in the middle of the transaction.
InverterPayloads ==
    {[power_ac |-> 36,    power_ac_scale |-> 2],
     [power_ac |-> 35000, power_ac_scale |-> -1],
     [power_ac |-> 1000,  power_ac_scale |-> 0],
     [power_ac |-> 4000],
     <<>>}

\* Payloads of meter.read("power"): with the 'power' field, or without it.
MeterPayloads ==
    {[power |-> w] : w \in {-200, 0, 300, 3500, 4000}} \cup {<<>>}

\* What the transport does in one attempt: a ConnectionException out of one
\* of the two reads, or both reads returning payloads; and whether the
\* reconnect of a recovery that follows goes through.
AttemptEvents ==
    {[kind |-> "connection", inv |-> None, m |-> None, reconnects |-> ok] :
        ok \in BOOLEAN}
    \cup
    {[kind |-> "payload", inv |-> i, m |-> m, reconnects |-> ok] :
        i \in InverterPayloads, m \in MeterPayloads, ok \in BOOLEAN}

\* Energy._try_recover(): disconnect, reconnect; every exception is swallowed.
try_recover(st, ev) == [st EXCEPT !.connected = ev.reconnects]

\* One pass of the loop body of read() on its locals st. status tells how
\* the pass ends: "continue", "return", or "raise" for an exception that no
\* handler of read() catches; recovered, whether _try_recover() ran.
read_attempt(st, ev) ==
    IF ev.kind = "connection"
    THEN [st |-> try_recover(st, ev), status |-> "continue", recovered |-> TRUE]
    ELSE IF "power" \notin DOMAIN ev.m
    THEN [st |-> st, status |-> "raise", recovered |-> FALSE]
    ELSE LET st1 == [st EXCEPT !.export_w = Some(ev.m.power)] IN
         IF "power_ac" \notin DOMAIN ev.inv \/ "power_ac_scale" \notin DOMAIN ev.inv
         THEN [st |-> try_recover(st1, ev), status |-> "continue",
               recovered |-> TRUE]
         ELSE [st |-> [st1 EXCEPT !.production_w =
                          Some(Shift(ev.inv.power_ac, ev.inv.power_ac_scale))],
               status |-> "return", recovered |-> FALSE]

\* A loop that gives up one attempt early.
LoopGoesOn_one_short(k) == k < MaxAttempts - 1

\* for attempt in range(10): the attempts left after pass number k.
LoopGoesOn(k) == k < MaxAttempts

\* The locals of a new activation of read().
ReadLocals(conn) ==
    [production_w |-> None, export_w |-> None, connected |-> conn]

\* Every way read() can end when the loop is at attempt k with its locals one
\* of S: the pairs it can return and "raise".
RECURSIVE ReadFrom(_, _)
ReadFrom(k, S) ==
    IF S = {} THEN {}
    ELSE IF ~LoopGoesOn(k)
    THEN {[ret |-> "return", production_w |-> st.production_w,
           export_w |-> st.export_w, connected |-> st.connected] : st \in S}
    ELSE LET outs == {read_attempt(st, ev) : st \in S, ev \in AttemptEvents}
         IN {[ret |-> o.status, production_w |-> o.st.production_w,
              export_w |-> o.st.export_w, connected |-> o.st.connected] :
                 o \in {x \in outs : x.status # "continue"}}
            \cup ReadFrom(k + 1, {o.st : o \in {x \in outs : x.status = "continue"}})

\* read() on an Energy object whose session is connected or not.
ReadOutcomes == [conn \in BOOLEAN |-> ReadFrom(0, {ReadLocals(conn)})]

read(conn) == ReadOutcomes[conn]

(* read() called again and again on one Energy object, attempt by attempt *)

InitRead ==
    /\ BoilerInit(DefaultLedger)
    /\ last_call = NoCall
    /\ now = StartClock
    /\ ReadIdle
    /\ MainIdle

CallRead ==
    /\ rd # "reading"
    /\ rd' = "reading"
    /\ attempt' = 0
    /\ recoveries' = 0
    /\ inverter_data' = None
    /\ meter_data' = None
    /\ production_w' = None
    /\ export_w' = None
    /\ UNCHANGED connected
    /\ UNCHANGED <<boilerVars, last_call, now, mainVars>>

ReadAttempt ==
    /\ rd = "reading"
    /\ \E ev \in AttemptEvents :
          LET r == read_attempt([production_w |-> production_w,
                                 export_w |-> export_w,
                                 connected |-> connected], ev) IN
          /\ inverter_data' = ev.inv
          /\ meter_data' = ev.m
          /\ production_w' = r.st.production_w
          /\ export_w' = r.st.export_w
          /\ connected' = r.st.connected
          /\ recoveries' = IF r.recovered THEN recoveries + 1 ELSE recoveries
          /\ attempt' = attempt + 1
          /\ rd' = IF r.status = "continue"
                   THEN IF LoopGoesOn(attempt + 1) THEN "reading" ELSE "returned"
                   ELSE IF r.status = "return" THEN "returned" ELSE "raised"
    /\ UNCHANGED <<boilerVars, last_call, now, mainVars>>

NextRead ==
    \/ CallRead
    \/ ReadAttempt

SpecRead == InitRead /\ [][NextRead]_vars

----------------------------------------------------------------------------
(* main() *)

\* is_night(): datetime.now().hour < 7 or > 23, the hour taken from the clock.
Hour(t) == (t \div 3600) % 24

is_night(t) == Hour(t) < 7 \/ Hour(t) > 23

\* Clock values at which main() samples was_night at start-up: in the night,
\* and in the day. The loop is entered at once, or one of TickSteps later
\* (the forecast request and the Modbus connection attempts lie in between).
MainStartClocks == {StartClock, StartClock + 21600}

\* A Boiler call that did not take place in an iteration.
Skipped(b) == [b |-> b, ret |-> "skip", cmd |-> "none"]

NoDecision == [branch |-> "none", rollover |-> "skip", enable |-> "skip",
               disable |-> "skip"]

\* The state at "Start continuous reading": was_night taken at start-up, the
\* forecast client constructed or not, e and boiler constructed.
Init ==
    /\ \E ledger \in StoredLedgers : BoilerInit(ledger)
    /\ last_call = NoCall
    /\ \E t0 \in MainStartClocks, d \in {0} \cup TickSteps :
          /\ was_night = is_night(t0)
          /\ now = t0 + d
    /\ rd = "idle" /\ attempt = 0 /\ recoveries = 0
    /\ inverter_data = None /\ meter_data = None
    /\ production_w = None /\ export_w = None
    /\ connected \in BOOLEAN
    /\ pc = "loop"
    /\ sachseln_bound \in BOOLEAN
    /\ e_bound = TRUE
    /\ prod = None /\ export = None
    /\ decision = NoDecision
    /\ stopped_by = "none"
    /\ exit_code = None

\* Where the loop goes after the Boiler calls of an iteration.
AfterCalls(rets) ==
    IF "raise" \in rets THEN "except"
    ELSE IF "interrupt" \in rets THEN "interrupted"
    ELSE "sleep"

\* What ended the loop, if one of the Boiler calls of an iteration did.
StoppedBy(rets) ==
    IF "raise" \in rets THEN "fault"
    ELSE IF "interrupt" \in rets THEN "interrupt"
    ELSE "none"

\* The day branch up to e.read() without "was_night = False".
DayBegin_keeps_was_night ==
    /\ pc = "loop"
    /\ ~is_night(now)
    /\ IF was_night
       THEN /\ SetBoiler(set_new_day(Boiler))
            /\ last_call' = [op |-> "set_new_day", ret |-> "None", cmd |-> "none"]
            /\ \E forecast_ok \in BOOLEAN :
                  e_bound' = (e_bound /\ sachseln_bound /\ forecast_ok)
            /\ was_night' = was_night
            /\ decision' = [NoDecision EXCEPT !.rollover = "None"]
       ELSE /\ UNCHANGED <<boilerVars, last_call, e_bound, was_night>>
            /\ decision' = NoDecision
    /\ pc' = "read"
    /\ UNCHANGED <<now, readVars, sachseln_bound, prod, export, stopped_by,
                   exit_code>>

\* Day branch, up to the call of e.read(): on the first day iteration after
\* the night the rollover and the forecast refresh. The handler of a failed
\* refresh is "except Exception as e": leaving it unbinds the local e, which
\* held the Energy object. A sachseln never bound fails the refresh too.
DayBegin ==
    /\ pc = "loop"
    /\ ~is_night(now)
    /\ IF was_night
       THEN /\ SetBoiler(set_new_day(Boiler))
            /\ last_call' = [op |-> "set_new_day", ret |-> "None", cmd |-> "none"]
            /\ \E forecast_ok \in BOOLEAN :
                  e_bound' = (e_bound /\ sachseln_bound /\ forecast_ok)
            /\ was_night' = FALSE
            /\ decision' = [NoDecision EXCEPT !.rollover = "None"]
       ELSE /\ UNCHANGED <<boilerVars, last_call, e_bound, was_night>>
            /\ decision' = NoDecision
    /\ pc' = "read"
    /\ UNCHANGED <<now, readVars, sachseln_bound, prod, export, stopped_by,
                   exit_code>>

\* The day policy with the disable check "export < 0".
DayPolicy_strict_disable(b, p, x, t, out1, out2) ==
    LET enable_export_limit ==
            IF ~b.is_enabled THEN ExportLimitDisabled ELSE ExportLimitEnabled
        r1 == IF p > ProdLimit /\ x > enable_export_limit
              THEN enable(b, t, out1) ELSE Skipped(b)
        r2 == IF r1.ret \notin {"raise", "interrupt"} /\ x < 0
              THEN disable(r1.b, t, out2) ELSE Skipped(r1.b)
    IN [b |-> r2.b, enable |-> r1.ret, disable |-> r2.ret,
        last |-> IF r2.ret # "skip"
                 THEN [op |-> "disable", ret |-> r2.ret, cmd |-> r2.cmd]
                 ELSE IF r1.ret # "skip"
                 THEN [op |-> "enable", ret |-> r1.ret, cmd |-> r1.cmd]
                 ELSE last_call]

\* The day policy with the two export limits exchanged.
DayPolicy_limits_swapped(b, p, x, t, out1, out2) ==
    LET enable_export_limit ==
            IF ~b.is_enabled THEN ExportLimitEnabled ELSE ExportLimitDisabled
        r1 == IF p > ProdLimit /\ x > enable_export_limit
              THEN enable(b, t, out1) ELSE Skipped(b)
        r2 == IF r1.ret \notin {"raise", "interrupt"} /\ x <= 0
              THEN disable(r1.b, t, out2) ELSE Skipped(r1.b)
    IN [b |-> r2.b, enable |-> r1.ret, disable |-> r2.ret,
        last |-> IF r2.ret # "skip"
                 THEN [op |-> "disable", ret |-> r2.ret, cmd |-> r2.cmd]
                 ELSE IF r1.ret # "skip"
                 THEN [op |-> "enable", ret |-> r1.ret, cmd |-> r1.cmd]
                 ELSE last_call]

\* The day policy whose enable check asks for the production or the export
\* over its limit.
DayPolicy_either_limit(b, p, x, t, out1, out2) ==
    LET enable_export_limit ==
            IF ~b.is_enabled THEN ExportLimitDisabled ELSE ExportLimitEnabled
        r1 == IF p > ProdLimit \/ x > enable_export_limit
              THEN enable(b, t, out1) ELSE Skipped(b)
        r2 == IF r1.ret \notin {"raise", "interrupt"} /\ x <= 0
              THEN disable(r1.b, t, out2) ELSE Skipped(r1.b)
    IN [b |-> r2.b, enable |-> r1.ret, disable |-> r2.ret,
        last |-> IF r2.ret # "skip"
                 THEN [op |-> "disable", ret |-> r2.ret, cmd |-> r2.cmd]
                 ELSE IF r1.ret # "skip"
                 THEN [op |-> "enable", ret |-> r1.ret, cmd |-> r1.cmd]
                 ELSE last_call]

\* The enable check and the disable check of the day branch on a reading.
DayPolicy(b, p, x, t, out1, out2) ==
    LET enable_export_limit ==
            IF ~b.is_enabled THEN ExportLimitDisabled ELSE ExportLimitEnabled
        r1 == IF p > ProdLimit /\ x > enable_export_limit
              THEN enable(b, t, out1) ELSE Skipped(b)
        r2 == IF r1.ret \notin {"raise", "interrupt"} /\ x <= 0
              THEN disable(r1.b, t, out2) ELSE Skipped(r1.b)
    IN [b |-> r2.b, enable |-> r1.ret, disable |-> r2.ret,
        last |-> IF r2.ret # "skip"
                 THEN [op |-> "disable", ret |-> r2.ret, cmd |-> r2.cmd]
                 ELSE IF r1.ret # "skip"
                 THEN [op |-> "enable", ret |-> r1.ret, cmd |-> r1.cmd]
                 ELSE last_call]

\* The day branch that switches the boiler off on a reading with a None.
DayDecision_off_on_invalid(b, p, x, t, out1, out2) ==
    IF p = None \/ x = None
    THEN LET r == disable(b, t, out2) IN
         [b |-> r.b, enable |-> "skip", disable |-> r.ret,
          last |-> [op |-> "disable", ret |-> r.ret, cmd |-> r.cmd]]
    ELSE DayPolicy(b, Val(p), Val(x), t, out1, out2)

\* The day branch after e.read(): nothing on a reading with a None, the
\* policy otherwise.
DayDecision(b, p, x, t, out1, out2) ==
    IF p = None \/ x = None
    THEN [b |-> b, enable |-> "skip", disable |-> "skip", last |-> last_call]
    ELSE DayPolicy(b, Val(p), Val(x), t, out1, out2)

\* prod, export = e.read() and the rest of the day branch. With e unbound
\* the call raises at once; an exception out of read() or out of a Boiler
\* call reaches the handlers of main().
DayControl ==
    /\ pc = "read"
    /\ IF ~e_bound
       THEN /\ pc' = "except"
            /\ stopped_by' = "fault"
            /\ UNCHANGED <<boilerVars, last_call, connected, prod, export, decision>>
       ELSE \E res \in read(connected) :
            /\ connected' = res.connected
            /\ IF res.ret = "raise"
               THEN /\ pc' = "except"
                    /\ stopped_by' = "fault"
                    /\ UNCHANGED <<boilerVars, last_call, prod, export, decision>>
               ELSE /\ prod' = res.production_w
                    /\ export' = res.export_w
                    /\ \E out1 \in LoopCallOutcomes, out2 \in LoopCallOutcomes :
                          LET r == DayDecision(Boiler, res.production_w,
                                               res.export_w, now, out1, out2)
                          IN
                          /\ r.b.charge_time_today_sec <= MaxCharge
                          /\ SetBoiler(r.b)
                          /\ last_call' = r.last
                          /\ decision' = [branch |-> "day",
                                          rollover |-> decision.rollover,
                                          enable |-> r.enable,
                                          disable |-> r.disable]
                          /\ pc' = AfterCalls({r.enable, r.disable})
                          /\ stopped_by' = StoppedBy({r.enable, r.disable})
    /\ UNCHANGED <<rd, attempt, recoveries, inverter_data, meter_data,
                   production_w, export_w>>
    /\ UNCHANGED <<now, was_night, sachseln_bound, e_bound, exit_code>>

\* The night branch that counts the running ON time towards the sufficiency
\* test.
NightPolicy_counts_running_time(b, t, out) ==
    IF charge_time_of_last_two_days(b)
          + (IF b.is_enabled THEN t - b.start_time ELSE 0) >= USAGE_PER_DAY_SEC
    THEN LET r == disable(b, t, out) IN
         [b |-> r.b, enable |-> "skip", disable |-> r.ret,
          last |-> [op |-> "disable", ret |-> r.ret, cmd |-> r.cmd]]
    ELSE LET r == enable(b, t, out) IN
         [b |-> r.b, enable |-> r.ret, disable |-> "skip",
          last |-> [op |-> "enable", ret |-> r.ret, cmd |-> r.cmd]]

\* The night branch.
NightPolicy(b, t, out) ==
    IF is_boiler_charged_enough_for_one_day(b)
    THEN LET r == disable(b, t, out) IN
         [b |-> r.b, enable |-> "skip", disable |-> r.ret,
          last |-> [op |-> "disable", ret |-> r.ret, cmd |-> r.cmd]]
    ELSE LET r == enable(b, t, out) IN
         [b |-> r.b, enable |-> r.ret, disable |-> "skip",
          last |-> [op |-> "enable", ret |-> r.ret, cmd |-> r.cmd]]

NightControl ==
    /\ pc = "loop"
    /\ is_night(now)
    /\ was_night' = TRUE
    /\ \E out \in LoopCallOutcomes :
          LET r == NightPolicy(Boiler, now, out) IN
          /\ r.b.charge_time_today_sec <= MaxCharge
          /\ SetBoiler(r.b)
          /\ last_call' = r.last
          /\ decision' = [branch |-> "night", rollover |-> "skip",
                          enable |-> r.enable, disable |-> r.disable]
          /\ pc' = AfterCalls({r.enable, r.disable})
          /\ stopped_by' = StoppedBy({r.enable, r.disable})
    /\ UNCHANGED <<now, readVars, sachseln_bound, e_bound, prod, export, exit_code>>

\* time.sleep(2) at the end of an iteration; the clock of the model advances
\* by nothing or by one of TickSteps. The readings of the iteration are not
\* used again.
Sleep ==
    /\ pc = "sleep"
    /\ \E d \in {0} \cup TickSteps :
          /\ now + d <= StartClock + MaxElapsed
          /\ now' = now + d
    /\ pc' = "loop"
    /\ prod' = None
    /\ export' = None
    /\ UNCHANGED <<boilerVars, last_call, readVars, was_night, sachseln_bound,
                   e_bound, decision, stopped_by, exit_code>>

\* The two handlers of main(): boiler.disable(), the ledger written, return.
\* A relay fault in this disable() leaves main() by the exception.
Shutdown(code) ==
    \E out \in RelayOutcomes :
        LET r == disable(Boiler, now, out) IN
        /\ r.b.charge_time_today_sec <= MaxCharge
        /\ last_call' = [op |-> "disable", ret |-> r.ret, cmd |-> r.cmd]
        /\ IF r.ret = "raise"
           THEN /\ SetBoiler(r.b)
                /\ pc' = "crashed"
                /\ exit_code' = None
           ELSE /\ SetBoiler(write_charge_times_to_tmp_file(r.b))
                /\ pc' = "done"
                /\ exit_code' = Some(code)

\* except KeyboardInterrupt: the interrupt arrives between two steps of the
\* loop, or has ended a Boiler call.
Interrupt ==
    /\ pc \in {"loop", "read", "sleep", "interrupted"}
    /\ stopped_by' = "interrupt"
    /\ Shutdown(0)
    /\ UNCHANGED <<now, readVars, was_night, sachseln_bound, e_bound, prod,
                   export, decision>>

\* except Exception
HandleFault ==
    /\ pc = "except"
    /\ Shutdown(1)
    /\ UNCHANGED <<now, readVars, was_night, sachseln_bound, e_bound, prod,
                   export, decision, stopped_by>>

Next ==
    \/ DayBegin
    \/ DayControl
    \/ NightControl
    \/ Sleep
    \/ Interrupt
    \/ HandleFault

Spec == Init /\ [][Next]_vars

----------------------------------------------------------------------------
(* Properties of the Boiler (SpecBoiler) *)

\* C1 (as stated): in every reachable state, the state right after
\* construction included, exactly one of is_enabled and is_disabled is true,
\* and right after construction it is is_disabled.
C1_ExactlyOneFlagFromConstruction ==
    /\ is_enabled # is_disabled
    /\ (relay = "unknown" => is_disabled /\ ~is_enabled)

\* C1 (amended): the two flags are never both true; both are false from
\* construction until the first enable() or disable() whose relay command goes
\* through, and from then on exactly one is true: is_enabled after an ON
\* command, is_disabled after an OFF command.
C1_FlagsFollowRelay ==
    /\ relay = "unknown" => ~is_enabled /\ ~is_disabled
    /\ relay = "on" => is_enabled /\ ~is_disabled
    /\ relay = "off" => is_disabled /\ ~is_enabled

\* An enable() and then a disable() have gone through.
C1_Witness ==
    /\ relay = "off" /\ is_disabled /\ ~is_enabled
    /\ on_since # 0
    /\ last_call = [op |-> "disable", ret |-> "True", cmd |-> "off"]

\* C2: is_enabled and is_disabled are never both true, whatever sequence of
\* enable(), disable(), set_new_day() and reset_counter() has been called.
C2_NeverBothFlags == ~(is_enabled /\ is_disabled)

\* The boiler is on again after it had been switched off, and the counter
\* has been reset since.
C2_Witness ==
    /\ is_enabled
    /\ stop_time # 0 /\ start_time >= stop_time
    /\ last_call.op = "reset_counter"

\* C3: a disable() that acts while the boiler is on adds to
\* charge_time_today_sec exactly the time elapsed since the enable() that
\* switched it on, and leaves charge_time_yesterday_sec alone; a disable()
\* when no enable() has ever happened leaves both counters alone.
C3_DisableAddsElapsed ==
    [][CallDisable /\ last_call'.ret # "False" =>
          /\ is_enabled =>
                /\ charge_time_today_sec' =
                       charge_time_today_sec + (now - on_since)
                /\ now - on_since >= 0
                /\ charge_time_yesterday_sec' = charge_time_yesterday_sec
          /\ on_since = 0 =>
                /\ charge_time_today_sec' = charge_time_today_sec
                /\ charge_time_yesterday_sec' = charge_time_yesterday_sec]_vars

\* A disable() has just added a positive elapsed time to a ledger that held
\* charge time already.
C3_Witness ==
    /\ last_call = [op |-> "disable", ret |-> "True", cmd |-> "off"]
    /\ start_time # 0 /\ stop_time - start_time = 10800
    /\ charge_time_today_sec > stop_time - start_time

\* C4: enable() on an enabled controller returns False, issues no relay
\* command and changes no field of the Boiler nor the persisted ledger.
C4_EnableWhenEnabledIsNoOp ==
    [][CallEnable /\ is_enabled =>
          /\ last_call'.ret = "False"
          /\ last_call'.cmd = "none"
          /\ UNCHANGED boilerVars]_vars

\* enable() has just been called on an enabled controller, after the clock
\* moved on from the moment it was switched on.
C4_Witness ==
    /\ last_call = [op |-> "enable", ret |-> "False", cmd |-> "none"]
    /\ is_enabled
    /\ now > start_time

\* C5: disable() on a disabled controller (is_disabled true) returns False,
\* issues no relay command and changes no field of the Boiler nor the
\* persisted ledger.
C5_DisableWhenDisabledIsNoOp ==
    [][CallDisable /\ is_disabled =>
          /\ last_call'.ret = "False"
          /\ last_call'.cmd = "none"
          /\ UNCHANGED boilerVars]_vars

\* disable() has just been called on a controller that was switched off
\* earlier, after a charge.
C5_Witness ==
    /\ last_call = [op |-> "disable", ret |-> "False", cmd |-> "none"]
    /\ is_disabled
    /\ start_time # 0 /\ now > stop_time

\* C6: set_new_day() sets charge_time_yesterday_sec to the smaller of the old
\* charge_time_today_sec and 10800 and charge_time_today_sec to 0; and in
\* every reachable state both counters are >= 0 and charge_time_yesterday_sec
\* is <= 10800.
C6_RolloverClamps ==
    /\ [][CallSetNewDay =>
            /\ charge_time_today_sec <= 10800 =>
                  charge_time_yesterday_sec' = charge_time_today_sec
            /\ charge_time_today_sec > 10800 =>
                  charge_time_yesterday_sec' = 10800
            /\ charge_time_today_sec' = 0]_vars
    /\ [](/\ charge_time_today_sec >= 0
          /\ charge_time_yesterday_sec >= 0
          /\ charge_time_yesterday_sec <= 10800)

\* A rollover has just capped a day whose one charge lasted 21600 s.
C6_Witness ==
    /\ last_call.op = "set_new_day"
    /\ charge_time_yesterday_sec = 10800 /\ charge_time_today_sec = 0
    /\ json_data = [charge_time_today |-> 0, charge_time_yesterday |-> 10800]
    /\ is_disabled /\ stop_time - start_time = 21600

----------------------------------------------------------------------------
(* Properties of Energy.read() (SpecRead) *)

\* The attempt read() has just returned from succeeded: its payloads were
\* complete.
LastAttemptSucceeded ==
    /\ "power" \in DOMAIN meter_data
    /\ "power_ac" \in DOMAIN inverter_data
    /\ "power_ac_scale" \in DOMAIN inverter_data

\* C7 (as stated): read() returns from the first attempt that succeeds, after
\* N + 1 attempts and N recoveries, with that attempt's production and
\* export; when all 10 attempts fail it returns (None, None) after 10
\* attempts and 10 recoveries.
C7_AllFailedReturnsNoneNone ==
    rd = "returned" =>
        IF LastAttemptSucceeded
        THEN /\ attempt \in 1..10
             /\ recoveries = attempt - 1
             /\ production_w =
                    Some(Shift(inverter_data.power_ac, inverter_data.power_ac_scale))
             /\ export_w = Some(meter_data.power)
        ELSE /\ attempt = 10
             /\ recoveries = 10
             /\ production_w = None
             /\ export_w = None

\* C7 (amended): as stated for a read() that returns from a successful
\* attempt; when all 10 attempts fail (by a ConnectionException or by missing
\* inverter fields) read() returns after 10 attempts and 10 recoveries with
\* production None and with export the meter value of the last attempt in
\* which the meter was read, None only when it was read in none.
C7_ReadRetriesAndReturns ==
    /\ [](rd = "returned" =>
            IF LastAttemptSucceeded
            THEN /\ attempt \in 1..10
                 /\ recoveries = attempt - 1
                 /\ production_w =
                        Some(Shift(inverter_data.power_ac,
                                   inverter_data.power_ac_scale))
                 /\ export_w = Some(meter_data.power)
            ELSE /\ attempt = 10
                 /\ recoveries = 10
                 /\ production_w = None)
    /\ [][ReadAttempt =>
             export_w' = IF "power" \in DOMAIN meter_data'
                         THEN Some(meter_data'.power) ELSE export_w]_vars
    /\ [](rd = "reading" /\ attempt = 0 => export_w = None)

\* All 10 attempts failed, the last one by a ConnectionException, and an
\* earlier one had read the meter.
C7_Witness ==
    /\ rd = "returned"
    /\ attempt = 10 /\ recoveries = 10
    /\ production_w = None /\ export_w = Some(300)
    /\ meter_data = None

\* C8: read() never raises, whatever faults its attempts meet.
C8_ReadNeverRaises == rd # "raised"

----------------------------------------------------------------------------
(* Properties of the control loop (Spec) *)

\* A day iteration that got a reading and went through to the sleep.
DayIterationDone ==
    /\ DayControl
    /\ pc' = "sleep"
    /\ prod' # None /\ export' # None

\* C9: at the end of a day iteration whose reading has export <= 0 the
\* boiler is disabled, whatever the production; disable() returned True
\* when the boiler was enabled.
C9_NoExportDisables ==
    /\ [](pc = "sleep" /\ decision.branch = "day"
             /\ prod # None /\ export # None /\ Val(export) <= 0
          => is_disabled /\ ~is_enabled /\ relay = "off")
    /\ [][DayIterationDone /\ Val(export') <= 0 /\ is_enabled
          => decision'.disable = "True"]_vars

\* A day iteration has just switched off, at export 0 and production 3600,
\* a boiler that was on.
C9_Witness ==
    /\ pc = "sleep" /\ decision.branch = "day"
    /\ export = Some(0) /\ prod = Some(3600)
    /\ decision.disable = "True"
    /\ on_since # 0 /\ stop_time >= on_since
    /\ is_disabled

\* C10: in a day iteration with a reading, a boiler that is not enabled
\* becomes enabled iff production > 3500 and export > 3500; an enabled one
\* stays enabled whenever export > 0, and disable() acts only at export <= 0.
C10_DayHysteresis ==
    [][DayIterationDone =>
          /\ ~is_enabled =>
                (is_enabled' <=> Val(prod') > 3500 /\ Val(export') > 3500)
          /\ is_enabled /\ Val(export') > 0 =>
                is_enabled' /\ UNCHANGED boilerVars
          /\ decision'.disable = "True" => Val(export') <= 0]_vars

\* A day iteration has left on, at export 300 and production 1000, a boiler
\* that was on.
C10_Witness ==
    /\ pc = "sleep" /\ decision.branch = "day"
    /\ export = Some(300) /\ prod = Some(1000)
    /\ is_enabled /\ relay = "on"

\* C11: a night iteration that completes leaves the boiler enabled iff the
\* two-day charge was below 5400 s when it began and disabled iff it was at
\* least 5400 s; it takes no energy reading.
C11_NightPolicy ==
    [][NightControl /\ pc' = "sleep" =>
          /\ is_enabled' <=>
                charge_time_today_sec + charge_time_yesterday_sec < 5400
          /\ is_disabled' <=>
                charge_time_today_sec + charge_time_yesterday_sec >= 5400
          /\ is_boiler_charged_enough_for_one_day(Boiler) <=>
                charge_time_today_sec + charge_time_yesterday_sec >= 5400
          /\ UNCHANGED <<readVars, prod, export>>]_vars

\* A night iteration has left disabled a boiler whose two-day charge is
\* exactly 5400 s.
C11_Witness ==
    /\ pc = "sleep" /\ decision.branch = "night"
    /\ decision.enable = "skip" /\ decision.disable # "skip"
    /\ charge_time_today_sec + charge_time_yesterday_sec = 5400
    /\ is_disabled /\ ~is_enabled

\* C12: when main() has left the loop, by an interrupt or by a fault, the
\* boiler is disabled, the stored ledger is the one in memory, and main()
\* has returned 0 after an interrupt and 1 after a fault.
C12_StopDisablesWritesReturns ==
    pc \in {"done", "crashed"} =>
        /\ pc = "done"
        /\ is_disabled /\ ~is_enabled /\ relay = "off"
        /\ json_data = [charge_time_today |-> charge_time_today_sec,
                        charge_time_yesterday |-> charge_time_yesterday_sec]
        /\ exit_code = Some(IF stopped_by = "interrupt" THEN 0 ELSE 1)

\* C13: a failed forecast, at start-up or at the night-to-day transition,
\* leaves control as it is: every day iteration that comes to e.read()
\* takes the reading, and no iteration sends the loop to the catch-all
\* without a reading having raised or a relay command having failed.
C13_ForecastFailureHasNoEffect ==
    /\ pc = "read" => e_bound
    /\ pc = "except" /\ decision.branch = "none" => e_bound

\* C14 as stated: a day iteration calls set_new_day() iff the iteration
\* before it was a night iteration.
C14_RolloverOnlyAfterNightIteration ==
    [][DayBegin => (decision'.rollover = "None" <=> decision.branch = "night")]_vars

\* C14, amended: a day iteration calls set_new_day(), once, iff the iteration
\* before it was a night iteration, or it is the first iteration of the
\* loop and was_night was taken in the night at start-up; a night iteration
\* never calls it.
C14_RolloverOncePerTransition ==
    /\ [][DayBegin =>
            /\ decision'.rollover = "None" <=>
                  \/ decision.branch = "night"
                  \/ decision.branch = "none" /\ was_night
            /\ decision'.rollover = "None" =>
                  /\ Boiler' = set_new_day(Boiler)
                  /\ ~was_night'
            /\ decision'.rollover = "skip" => UNCHANGED boilerVars]_vars
    /\ [][NightControl => decision'.rollover = "skip"]_vars

\* The first iteration of the loop (no Boiler call has set a flag yet) was a
\* day iteration and has called set_new_day(): was_night was taken in the
\* night at start-up.
C14_Witness ==
    /\ pc = "read" /\ decision.rollover = "None"
    /\ ~is_enabled /\ ~is_disabled
    /\ ~is_night(now) /\ ~was_night

\* C15: after construction and after every Boiler call, the stored ledger
\* holds the two counters that are in memory.
C15_StoredLedgerEqualsMemory ==
    /\ json_data.charge_time_today = charge_time_today_sec
    /\ json_data.charge_time_yesterday = charge_time_yesterday_sec

\* A rollover has moved a positive charge time to yesterday's counter, which
\* no longer has its default, and the stored ledger shows it.
C15_Witness ==
    /\ last_call.op = "set_new_day"
    /\ charge_time_yesterday_sec > 0
    /\ charge_time_yesterday_sec # DefaultLedger.charge_time_yesterday
    /\ charge_time_today_sec = 0
    /\ json_data = [charge_time_today |-> 0,
                    charge_time_yesterday |-> charge_time_yesterday_sec]

\* C16: a day iteration whose reading has a None calls neither enable() nor
\* disable() and sends no relay command: flags, start_time, stop_time, the
\* counters and the stored ledger stay as the rollover step left them.
C16_InvalidReadingChangesNothing ==
    [][DayControl /\ decision'.branch = "day"
          /\ (prod' = None \/ export' = None)
       => /\ UNCHANGED <<boilerVars, last_call>>
          /\ decision'.enable = "skip" /\ decision'.disable = "skip"
          /\ pc' = "sleep"]_vars

\* A day iteration got a reading without the production, with an export of
\* 0 or less, and has left on a boiler that was on.
C16_Witness ==
    /\ pc = "sleep" /\ decision.branch = "day"
    /\ prod = None /\ export # None /\ Val(export) <= 0
    /\ decision.enable = "skip" /\ decision.disable = "skip"
    /\ is_enabled /\ relay = "on"

\* C17: a relay command that failed inside the loop, in enable() or in
\* disable(), takes the loop to the catch-all of main(), which calls
\* disable(), writes the ledger and returns 1, also when the relay command
\* of that disable() fails.
C17_RelayFaultShutsDownOrderly ==
    "raise" \in {decision.enable, decision.disable} =>
        \/ pc = "except"
        \/ /\ pc = "done"
           /\ last_call.op = "disable"
           /\ exit_code = Some(1)
           /\ json_data = [charge_time_today |-> charge_time_today_sec,
                           charge_time_yesterday |-> charge_time_yesterday_sec]

\* C18: the time added to charge_time_today_sec for one ON interval of the
\* relay is never more than the time since its ON command, whatever faults
\* and interrupts the disable() calls meet: no interval is added twice.
C18_OnIntervalAddedAtMostOnce ==
    on_since # 0 => credited <= now - on_since

\* C19: in one day iteration enable() and disable() never both return True,
\* and the iteration never ends with a relay switched on and then off.
C19_NoOnAndOffInOneIteration ==
    decision.branch = "day" =>
        /\ ~(decision.enable = "True" /\ decision.disable = "True")
        /\ decision.enable = "True" /\ pc = "sleep"
              => relay = "on" /\ is_enabled /\ decision.disable = "skip"

\* A day iteration has switched the boiler on, and its disable check did
\* not call disable().
C19_Witness ==
    /\ pc = "sleep" /\ decision.branch = "day"
    /\ decision.enable = "True" /\ decision.disable = "skip"
    /\ prod # None /\ export # None
    /\ Val(prod) > 3500 /\ Val(export) > 3500
    /\ relay = "on" /\ on_since = now

\* The boiler is on and the two-day charge of the ledger is below 5400 s:
\* the state a night iteration leaves when it enables the boiler.
ChargingBelowThreshold ==
    /\ is_enabled
    /\ charge_time_today_sec + charge_time_yesterday_sec < 5400

\* A step of the loop that calls disable(): in an iteration or in a handler.
DisableCalled ==
    \/ (DayControl \/ NightControl) /\ decision'.disable # "skip"
    \/ Interrupt
    \/ HandleFault

\* C20 as stated: while the boiler is enabled the ledger changes in no step
\* other than a call of disable(), and a boiler that is on with a two-day
\* charge below 5400 s stays so until a day iteration with export <= 0
\* calls disable() or the loop shuts down.
C20_LedgerFixedWhileEnabled ==
    /\ [][is_enabled /\ ~DisableCalled =>
            UNCHANGED <<charge_time_today_sec, charge_time_yesterday_sec,
                        json_data>>]_vars
    /\ [][ChargingBelowThreshold =>
            \/ ChargingBelowThreshold'
            \/ DayControl /\ decision'.disable # "skip" /\ Val(export') <= 0
            \/ pc' \in {"done", "crashed"}]_vars

\* C20, amended: while the boiler is enabled the ledger changes only in a
\* call of disable() and in the rollover, which never raises the two-day
\* charge; a boiler that is on with a two-day charge below 5400 s stays so,
\* through night iterations and the rollover, until a day iteration with
\* export <= 0 calls disable() or the loop shuts down.
C20_NightChargingDoesNotStop ==
    /\ [][is_enabled /\ ~DisableCalled =>
            \/ UNCHANGED <<charge_time_today_sec, charge_time_yesterday_sec,
                           json_data>>
            \/ /\ DayBegin /\ decision'.rollover = "None"
               /\ charge_time_today_sec' + charge_time_yesterday_sec'
                     <= charge_time_today_sec + charge_time_yesterday_sec]_vars
    /\ [][ChargingBelowThreshold =>
            \/ ChargingBelowThreshold'
            \/ DayControl /\ decision'.disable # "skip" /\ Val(export') <= 0
            \/ pc' \in {"done", "crashed"}]_vars
    /\ [][ChargingBelowThreshold /\ NightControl =>
            /\ decision'.disable = "skip"
            /\ decision'.enable = "False"
            /\ UNCHANGED boilerVars]_vars

\* A night iteration has left on a boiler that has been on for 5400 s or
\* more: enable() was called and returned False.
C20_Witness ==
    /\ pc = "sleep" /\ decision.branch = "night"
    /\ decision.enable = "False" /\ decision.disable = "skip"
    /\ ChargingBelowThreshold
    /\ relay = "on" /\ now - start_time >= 5400

====
